---- MODULE Spec2Model ----
(***************************************************************************)
(* Model of OptiTrade (src/OptiTrader/optitrade.py): a stateful scanner    *)
(* over a numeric series that registers opt-in / opt-out index pairs.      *)
(*                                                                         *)
(* Indices are 0-based as in the source; the series is a TLA+ sequence,    *)
(* so the sample at source index i is tseries[i + 1].  Penalties are       *)
(* rationals k / den carried with their denominator, so every comparison   *)
(* of the source is evaluated exactly after multiplying through by den.    *)
(***************************************************************************)
EXTENDS Integers, Sequences, FiniteSets, TLC

\* ---------------------------------------------------------------- bounds
MaxLen == 5        \* longest series explored
MaxVal == 3        \* samples range over 0..MaxVal
PDen == 2          \* penalties are k / PDen
MaxPNum == 2       \* scalar penalties range over 0/PDen .. MaxPNum/PDen
MaxArity == 3      \* tuple penalties have 2..MaxArity components
MaxCalls == 2      \* find_optimal_pairs is called at most MaxCalls times

Vals == 0..MaxVal
PNums == 0..MaxPNum

\* the value find_next_larger returns when no larger sample exists
None == -1

VARIABLES
    tseries,           \* self.tseries
    penalty,           \* self.penalty: [kind: "scalar" | "tuple", v, den]: v[i] / den
    position,          \* self.position
    heap,              \* the list objects created so far, by identity
    tmp_id,            \* identity of the list self.tmp is bound to
    registered_ids,    \* identities of the lists held by self.registered_pairs
    pc,                \* control point of find_optimal_pairs
    calls,             \* number of calls of find_optimal_pairs so far
    reads,             \* history: series indices read through tseries[...]
    iters,             \* history: inner-loop iterations begun in this call
    refines,           \* history: refine-opt-in corrections made in this call
    last_start         \* history: cursor at the start of the previous inner iteration

vars == <<tseries, penalty, position, heap, tmp_id, registered_ids, pc, calls,
          reads, iters, refines, last_start>>

\* self.tmp and self.registered_pairs as the program sees them
tmp == heap[tmp_id]
registered_pairs == [i \in 1..Len(registered_ids) |-> heap[registered_ids[i]]]

\* ------------------------------------------------------------ inputs
SeriesOfLen(n) == [1..n -> Vals]
AllSeries == UNION {SeriesOfLen(n) : n \in 0..MaxLen}

\* alternating series one sample longer than MaxLen: every sample is a local
\* extremum, so the scan takes a decision at every other sample
ZigZagSeries ==
    {s \in SeriesOfLen(MaxLen + 1) :
        \A i \in 1..MaxLen :
            IF i % 2 = 1 THEN s[i] < s[i + 1] ELSE s[i] > s[i + 1]}

\* the series and the penalty of the demonstration script, samples in
\* hundredths (every comparison of the scan is homogeneous in the samples)
ScenarioA == <<594, 589, 597, 600, 598, 607, 588, 598, 590>>
ScenarioAPenalty == [kind |-> "scalar", v |-> <<1>>, den |-> 400]

ScalarPenalties ==
    {[kind |-> "scalar", v |-> <<k>>, den |-> PDen] : k \in PNums}
\* one tuple per arity, with unequal entry and exit components; no
\* arithmetic on a tuple penalty completes, so the components are never used
TuplePenalties ==
    {[kind |-> "tuple", v |-> [i \in 1..a |-> (i - 1) % (MaxPNum + 1)],
      den |-> PDen] : a \in 2..MaxArity}
Penalties == ScalarPenalties \cup TuplePenalties

IsScalar(p) == p.kind = "scalar"
IsPairPenalty(p) == p.kind = "tuple" /\ Len(p.v) = 2
Malformed(p) == ~IsScalar(p) /\ ~IsPairPenalty(p)

\* ------------------------------------------------------------ helpers
N == Len(tseries)
At(i) == tseries[i + 1]
\* variant of Negated that leaves the series as it is
Negated_identity(ts) == ts
Negated(ts) == [i \in 1..Len(ts) |-> -ts[i]]
SetMin(S) == CHOOSE x \in S : \A y \in S : x <= y

\* variant of find_smaller that starts at index 0 instead of the cursor
RECURSIVE find_smaller_from_start_at(_, _)
find_smaller_from_start_at(ts, pos) ==
    IF pos + 1 < Len(ts) /\ ts[pos + 1] >= ts[pos + 2]
    THEN find_smaller_from_start_at(ts, pos + 1)
    ELSE pos
find_smaller_from_start(ts, pos) == find_smaller_from_start_at(ts, 0)

\* variant of find_smaller that advances at most one index
find_smaller_one_step(ts, pos) ==
    IF pos + 1 < Len(ts) /\ ts[pos + 1] >= ts[pos + 2] THEN pos + 1 ELSE pos

\* variant of find_smaller that advances only over strictly smaller samples
RECURSIVE find_smaller_strict(_, _)
find_smaller_strict(ts, pos) ==
    IF pos + 1 < Len(ts) /\ ts[pos + 1] > ts[pos + 2]
    THEN find_smaller_strict(ts, pos + 1)
    ELSE pos

\* find_smaller: advance while the next sample is not larger
RECURSIVE find_smaller(_, _)
find_smaller(ts, pos) ==
    IF pos + 1 < Len(ts) /\ ts[pos + 1] >= ts[pos + 2]
    THEN find_smaller(ts, pos + 1)
    ELSE pos

\* the indices find_smaller reads through ts[pos] and ts[pos + 1]
RECURSIVE find_smaller_reads(_, _)
find_smaller_reads(ts, pos) ==
    IF pos + 1 < Len(ts)
    THEN {pos, pos + 1} \cup
         (IF ts[pos + 1] >= ts[pos + 2]
          THEN find_smaller_reads(ts, pos + 1)
          ELSE {})
    ELSE {}

\* variant of find_next_larger that answers len(tseries) when no larger
\* sample exists
find_next_larger_len ==
    LET larger == {i \in position..(N - 1) : At(i) > At(position)}
    IN  IF larger = {} THEN N ELSE SetMin(larger)

\* variant of find_next_larger with the comparison turned around: the
\* first index whose sample is smaller than the sample at the cursor
find_next_larger_flipped ==
    LET smaller == {i \in position..(N - 1) : At(i) < At(position)}
    IN  IF smaller = {} THEN None ELSE SetMin(smaller)

\* find_next_larger: first index from the cursor on whose sample exceeds
\* the sample at the cursor, None when there is none
find_next_larger ==
    LET larger == {i \in position..(N - 1) : At(i) > At(position)}
    IN  IF larger = {} THEN None ELSE SetMin(larger)

\* find_min: index of the first smallest sample in [position, end_pos)
find_min(end_pos) ==
    LET rng == position..(end_pos - 1)
    IN  CHOOSE i \in rng :
            \A j \in rng : At(i) < At(j) \/ (At(i) = At(j) /\ i <= j)

find_min_reads(end_pos) == position..(end_pos - 1)

\* denominator of the penalty in force
Den == penalty.den

\* (1 - p) * y - (1 + p) * x > 0 for p = k / Den, scaled by Den
NetPositiveAt(k, a, b) == (Den - k) * At(b) - (Den + k) * At(a) > 0

\* variant of net_positive with the penalty signs exchanged
net_positive_swapped ==
    (Den + penalty.v[1]) * At(tmp[2]) - (Den - penalty.v[1]) * At(tmp[1]) > 0

\* net_positive on the candidate buffer; only defined for a scalar penalty
net_positive == NetPositiveAt(penalty.v[1], tmp[1], tmp[2])

net_positive_reads == {tmp[1], tmp[2]}

\* variant of check_profitable that adds the penalty term
check_profitable_plus(intermediate) ==
    LET current == At(position)
    IN  Den * (current - intermediate)
            + penalty.v[1] * (current + intermediate) > 0

\* check_profitable: current - intermediate - p * (current + intermediate) > 0
check_profitable(intermediate) ==
    LET current == At(position)
    IN  Den * (current - intermediate)
            - penalty.v[1] * (current + intermediate) > 0

\* variant of the loop condition that also admits the last index
loop_cond_inclusive == position <= N - 1

\* loop condition of both while loops
loop_cond == position < N - 1

\* list.pop(1)
Pop1(s) == SubSeq(s, 1, 1) \o SubSeq(s, 3, Len(s))

\* self.tmp.append(x)
TmpAppend(x) == heap' = [heap EXCEPT ![tmp_id] = Append(@, x)]

\* self.tmp = []: a new list object is bound to self.tmp
TmpRebind ==
    /\ heap' = Append(heap, <<>>)
    /\ tmp_id' = Len(heap) + 1

\* ------------------------------------------------------------ initial state
Init ==
    /\ \/ tseries \in AllSeries \cup ZigZagSeries /\ penalty \in Penalties
       \/ tseries = ScenarioA /\ penalty = ScenarioAPenalty
    /\ position = 0
    /\ heap = << <<>> >>
    /\ tmp_id = 1
    /\ registered_ids = <<>>
    /\ pc = "idle"
    /\ calls = 0
    /\ reads = {}
    /\ iters = 0
    /\ refines = 0
    /\ last_start = -1

\* ------------------------------------------------------------ actions
\* variant of Call that rewinds the cursor and keeps the lists
Call_ResetCursor ==
    /\ pc \in {"idle", "done"}
    /\ calls < MaxCalls
    /\ pc' = "outer"
    /\ position' = 0
    /\ calls' = calls + 1
    /\ iters' = 0
    /\ refines' = 0
    /\ last_start' = -1
    /\ UNCHANGED <<tseries, penalty, heap, tmp_id, registered_ids, reads>>

\* a caller invokes find_optimal_pairs (state is never reset)
Call ==
    /\ pc \in {"idle", "done"}
    /\ calls < MaxCalls
    /\ pc' = "outer"
    /\ calls' = calls + 1
    /\ iters' = 0
    /\ refines' = 0
    /\ last_start' = -1
    /\ UNCHANGED <<tseries, penalty, position, heap, tmp_id, registered_ids,
                   reads>>

\* variant of OuterStep that does not move the cursor to the opt-in
OuterStep_NoMove ==
    /\ pc = "outer"
    /\ loop_cond
    /\ TmpAppend(find_smaller(tseries, position))
    /\ reads' = reads \cup find_smaller_reads(tseries, position)
    /\ pc' = "inner"
    /\ UNCHANGED <<tseries, penalty, position, tmp_id, registered_ids, calls,
                   iters, refines, last_start>>

\* outer loop body up to the inner loop: find the opt-in
OuterStep ==
    /\ pc = "outer"
    /\ loop_cond
    /\ LET opt_in == find_smaller(tseries, position)
       IN  /\ position' = opt_in
           /\ TmpAppend(opt_in)
    /\ reads' = reads \cup find_smaller_reads(tseries, position)
    /\ pc' = "inner"
    /\ UNCHANGED <<tseries, penalty, tmp_id, registered_ids, calls, iters,
                   refines, last_start>>

\* outer loop condition false: the call returns
OuterExit ==
    /\ pc = "outer"
    /\ ~loop_cond
    /\ pc' = "done"
    /\ UNCHANGED <<tseries, penalty, position, heap, tmp_id, registered_ids,
                   calls, reads, iters, refines, last_start>>

\* inner loop condition false: back to the outer loop test
InnerExit ==
    /\ pc = "inner"
    /\ ~loop_cond
    /\ pc' = "outer"
    /\ UNCHANGED <<tseries, penalty, position, heap, tmp_id, registered_ids,
                   calls, reads, iters, refines, last_start>>

\* inner loop body up to the call of find_next_larger: the decision point
FindDecision ==
    /\ pc = "inner"
    /\ loop_cond
    /\ LET decision_point == find_smaller(Negated(tseries), position)
       IN  /\ position' = decision_point
           /\ TmpAppend(decision_point)
           /\ reads' = reads \cup find_smaller_reads(Negated(tseries), position)
                             \cup (decision_point..(N - 1))
    /\ iters' = iters + 1
    /\ last_start' = position
    /\ pc' = "decide"
    /\ UNCHANGED <<tseries, penalty, tmp_id, registered_ids, calls, refines>>

\* variant of GlobalPeakConfirm that empties the list in place
\* (self.tmp.clear()) instead of binding a new one
GlobalPeakConfirm_ClearInPlace ==
    /\ pc = "decide"
    /\ IsScalar(penalty)
    /\ find_next_larger = None
    /\ net_positive
    /\ registered_ids' = Append(registered_ids, tmp_id)
    /\ heap' = [heap EXCEPT ![tmp_id] = <<>>]
    /\ reads' = reads \cup net_positive_reads
    /\ pc' = "outer"
    /\ UNCHANGED <<tseries, penalty, position, tmp_id, calls, iters, refines,
                   last_start>>

\* the current peak is global and the pair is net-positive
GlobalPeakConfirm ==
    /\ pc = "decide"
    /\ IsScalar(penalty)
    /\ find_next_larger = None
    /\ net_positive
    /\ registered_ids' = Append(registered_ids, tmp_id)
    /\ TmpRebind
    /\ reads' = reads \cup net_positive_reads
    /\ pc' = "outer"
    /\ UNCHANGED <<tseries, penalty, position, calls, iters, refines,
                   last_start>>

\* variant of GlobalPeakDiscard that leaves the candidate buffer as it is
GlobalPeakDiscard_KeepBuffer ==
    /\ pc = "decide"
    /\ IsScalar(penalty)
    /\ find_next_larger = None
    /\ ~net_positive
    /\ reads' = reads \cup net_positive_reads
    /\ pc' = "outer"
    /\ UNCHANGED <<tseries, penalty, position, heap, tmp_id, registered_ids,
                   calls, iters, refines, last_start>>

\* the current peak is global and the pair is not net-positive
GlobalPeakDiscard ==
    /\ pc = "decide"
    /\ IsScalar(penalty)
    /\ find_next_larger = None
    /\ ~net_positive
    /\ TmpRebind
    /\ reads' = reads \cup net_positive_reads
    /\ pc' = "outer"
    /\ UNCHANGED <<tseries, penalty, position, registered_ids, calls, iters,
                   refines, last_start>>

\* a larger sample follows: the dip before it and the split test
intermediate_point == find_min(find_next_larger)
\* variant of profitable that passes the index of the dip, not its sample
profitable_by_index == check_profitable(intermediate_point)
profitable == check_profitable(At(intermediate_point))
split_reads ==
    find_min_reads(find_next_larger) \cup {intermediate_point, position}

\* splitting is profitable and the pair is net-positive: register it
SplitConfirm ==
    /\ pc = "decide"
    /\ IsScalar(penalty)
    /\ find_next_larger # None
    /\ profitable /\ net_positive
    /\ registered_ids' = Append(registered_ids, tmp_id)
    /\ TmpRebind
    /\ reads' = reads \cup split_reads \cup net_positive_reads
    /\ pc' = "outer"
    /\ UNCHANGED <<tseries, penalty, position, calls, iters, refines,
                   last_start>>

\* variant of RefineOptIn that resets the cursor to the old opt-in
RefineOptIn_BackToOptIn ==
    /\ pc = "decide"
    /\ IsScalar(penalty)
    /\ find_next_larger # None
    /\ profitable /\ ~net_positive
    /\ position' = tmp[1]
    /\ heap' = [heap EXCEPT ![tmp_id] = Pop1(@)]
    /\ reads' = reads \cup split_reads \cup net_positive_reads
    /\ refines' = refines + 1
    /\ pc' = "inner"
    /\ UNCHANGED <<tseries, penalty, tmp_id, registered_ids, calls, iters,
                   last_start>>

\* splitting is profitable but the pair is not net-positive: move the
\* opt-in to the next minimum
RefineOptIn ==
    /\ pc = "decide"
    /\ IsScalar(penalty)
    /\ find_next_larger # None
    /\ profitable /\ ~net_positive
    /\ LET refined == find_smaller(tseries, position)
       IN  /\ position' = refined
           /\ heap' = [heap EXCEPT ![tmp_id] = Pop1([@ EXCEPT ![1] = refined])]
    /\ reads' = reads \cup split_reads \cup net_positive_reads
                      \cup find_smaller_reads(tseries, position)
    /\ refines' = refines + 1
    /\ pc' = "inner"
    /\ UNCHANGED <<tseries, penalty, tmp_id, registered_ids, calls, iters,
                   last_start>>

\* variant of HoldThrough that leaves the decision point in the buffer
HoldThrough_KeepDecision ==
    /\ pc = "decide"
    /\ IsScalar(penalty)
    /\ find_next_larger # None
    /\ ~profitable
    /\ position' = find_next_larger
    /\ reads' = reads \cup split_reads
    /\ pc' = "inner"
    /\ UNCHANGED <<tseries, penalty, heap, tmp_id, registered_ids, calls,
                   iters, refines, last_start>>

\* splitting is not profitable: hold and move to the next larger sample
HoldThrough ==
    /\ pc = "decide"
    /\ IsScalar(penalty)
    /\ find_next_larger # None
    /\ ~profitable
    /\ position' = find_next_larger
    /\ heap' = [heap EXCEPT ![tmp_id] = Pop1(@)]
    /\ reads' = reads \cup split_reads
    /\ pc' = "inner"
    /\ UNCHANGED <<tseries, penalty, tmp_id, registered_ids, calls, iters,
                   refines, last_start>>

\* a tuple penalty: the arithmetic on self.penalty raises at the first
\* profitability test, with the candidate buffer still holding two indices
RaiseOnTuple ==
    /\ pc = "decide"
    /\ ~IsScalar(penalty)
    /\ reads' = IF find_next_larger = None THEN reads
                ELSE reads \cup split_reads
    /\ pc' = "raised"
    /\ UNCHANGED <<tseries, penalty, position, heap, tmp_id, registered_ids,
                   calls, iters, refines, last_start>>

Next ==
    \/ Call
    \/ OuterStep
    \/ OuterExit
    \/ InnerExit
    \/ FindDecision
    \/ GlobalPeakConfirm
    \/ GlobalPeakDiscard
    \/ SplitConfirm
    \/ RefineOptIn
    \/ HoldThrough
    \/ RaiseOnTuple

Spec == Init /\ [][Next]_vars

\* the steps of one call; the interpreter runs a started call to its end
ScanStep ==
    \/ OuterStep
    \/ OuterExit
    \/ InnerExit
    \/ FindDecision
    \/ GlobalPeakConfirm
    \/ GlobalPeakDiscard
    \/ SplitConfirm
    \/ RefineOptIn
    \/ HoldThrough
    \/ RaiseOnTuple

FairSpec == Spec /\ WF_vars(ScanStep)

\* ------------------------------------------------------------ properties
Pairs == registered_pairs
NPairs == Len(registered_pairs)

\* C1: every registered pair [a, b] has a < b, and consecutive registered
\* pairs are chronologically ordered and do not overlap
\* (pairs[i][1] <= pairs[i+1][0]), in every state of a scan.
C1_Ordering ==
    /\ \A i \in 1..NPairs : Len(Pairs[i]) = 2 /\ Pairs[i][1] < Pairs[i][2]
    /\ \A i \in 1..(NPairs - 1) : Pairs[i][2] <= Pairs[i + 1][1]

\* two pairs were registered and the call has returned
C1_Witness == pc = "done" /\ NPairs >= 2

\* C2: every registered pair is net-positive under the scan's penalty, and
\* when no index pair i < j is net-positive nothing is registered.
C2_NetPositive ==
    IsScalar(penalty) =>
        /\ \A i \in 1..NPairs :
              /\ Len(Pairs[i]) = 2
              /\ NetPositiveAt(penalty.v[1], Pairs[i][1], Pairs[i][2])
        /\ (\A a, b \in 0..(N - 1) :
               a < b => ~NetPositiveAt(penalty.v[1], a, b))
           => NPairs = 0

\* a pair was registered under a non-zero penalty
C2_Witness ==
    /\ pc = "done" /\ IsScalar(penalty) /\ penalty.v[1] > 0
    /\ NPairs >= 1

\* C3: every call of find_optimal_pairs terminates; each inner-loop
\* iteration starts at a strictly larger cursor than the one before it, at
\* most N - 1 inner iterations run in a call, and for N >= 1 the cursor is
\* N - 1 when the call returns.
C3_Termination ==
    /\ [][iters' = iters + 1 => last_start < position]_vars
    /\ [](iters <= (IF N >= 1 THEN N - 1 ELSE 0))
    /\ []((pc = "done" /\ N >= 1) => position = N - 1)
    /\ [](pc = "outer" => <>(pc \in {"done", "raised"}))

\* a call that took the refine-opt-in branch twice has returned
C3_Witness ==
    /\ pc = "done" /\ refines >= 2 /\ iters >= 3
    /\ N >= 1 /\ position = N - 1

\* C4: the cursor never decreases except possibly in the refine-opt-in
\* correction, which sets the cursor and the buffer's opt-in to an index at
\* or after the previous opt-in; find_smaller never returns an index below
\* the cursor it started from.
C4_MonotoneCursor ==
    /\ [][IF RefineOptIn
          THEN position' >= tmp[1] /\ tmp'[1] >= tmp[1] /\ tmp'[1] = position'
          ELSE position' >= position]_vars
    /\ [](\A p \in 0..(N - 1) :
            /\ find_smaller(tseries, p) >= p
            /\ find_smaller(Negated(tseries), p) >= p)

\* the refine-opt-in correction has just moved the opt-in forward
C4_Witness ==
    /\ pc = "inner" /\ refines >= 1 /\ Len(tmp) = 1
    /\ tmp[1] = position /\ last_start < position

\* (1 - exit) * y - (1 + entry) * x > 0 for penalties entry_k / Den and
\* exit_k / Den, as the specification states the asymmetric test
NetPositiveAsym(entry_k, exit_k, a, b) ==
    (Den - exit_k) * At(b) - (Den + entry_k) * At(a) > 0

\* C5: an instance never holds a penalty that is neither a scalar nor a
\* 2-tuple (construction fails), so no scan step runs on such an instance:
\* nothing is pushed, read or moved.
C5_RejectsMalformedPenalty ==
    Malformed(penalty) => (tmp = <<>> /\ reads = {} /\ position = 0)

\* C6: the net-positive test supports both penalty forms: a scalar p is
\* used for both sides, and a scan with a 2-tuple (entry, exit) penalty
\* completes without an error and registers only pairs with
\* (1 - exit) * series[b] - (1 + entry) * series[a] > 0.
C6_BothPenaltyForms ==
    /\ IsScalar(penalty) =>
          \A i \in 1..NPairs :
              NetPositiveAsym(penalty.v[1], penalty.v[1],
                              Pairs[i][1], Pairs[i][2])
    /\ IsPairPenalty(penalty) =>
          /\ pc # "raised"
          /\ \A i \in 1..NPairs :
                NetPositiveAsym(penalty.v[1], penalty.v[2],
                                Pairs[i][1], Pairs[i][2])

\* C7: on a series of length 0 or 1 a call runs no loop body, reads no
\* sample, raises no error and leaves position, tmp and registered_pairs at
\* their initial values.
C7_ShortSeries ==
    N <= 1 =>
        /\ pc \in {"idle", "outer", "done"}
        /\ position = 0
        /\ tmp = <<>>
        /\ registered_pairs = <<>>
        /\ reads = {}
        /\ iters = 0

\* a call on a one-sample series has returned
C7_Witness == pc = "done" /\ N = 1 /\ NPairs = 0

\* C8: for N >= 1 the cursor stays in 0..N-1, every index in the candidate
\* buffer or in a registered pair is in 0..N-1, every sample read is at an
\* index in 0..N-1, and find_min is only applied to a non-empty range.
C8_InBounds ==
    N >= 1 =>
        /\ position \in 0..(N - 1)
        /\ \A k \in 1..Len(tmp) : tmp[k] \in 0..(N - 1)
        /\ \A i \in 1..NPairs :
              \A k \in 1..Len(Pairs[i]) : Pairs[i][k] \in 0..(N - 1)
        /\ reads \subseteq 0..(N - 1)
        /\ (pc = "decide" /\ find_next_larger # None)
              => find_next_larger > position

\* a call that used every primitive and read every sample has returned
C8_Witness ==
    /\ pc = "done" /\ refines >= 1 /\ NPairs >= 1
    /\ reads = 0..(N - 1)

\* C9: registered_pairs is append-only: every step leaves it unchanged or
\* extends it by exactly one pair at the end, and never alters or removes a
\* pair already registered.
C9_AppendOnly ==
    [][\/ registered_pairs' = registered_pairs
       \/ /\ Len(registered_pairs') = NPairs + 1
          /\ SubSeq(registered_pairs', 1, NPairs) = registered_pairs
          /\ registered_pairs'[NPairs + 1] = tmp
          /\ Len(tmp) = 2]_vars

\* the candidate buffer has been written again after a pair was registered
C9_Witness == pc = "decide" /\ NPairs >= 1 /\ Len(tmp) = 2

\* C10: tmp holds 0, 1 or 2 indices; exactly 1 at the start of every
\* inner-loop iteration; exactly 2, opt-in before decision point, when the
\* profitability tests are evaluated; it is empty right after a pair is
\* confirmed or discarded; the outer loop only pushes onto an empty buffer.
C10_BufferShape ==
    /\ [](Len(tmp) \in 0..2)
    /\ []((pc = "inner" /\ loop_cond) => Len(tmp) = 1)
    /\ [](pc = "decide" => (Len(tmp) = 2 /\ tmp[1] < tmp[2]))
    /\ []((pc = "outer" /\ loop_cond) => tmp = <<>>)
    /\ [][(GlobalPeakConfirm \/ GlobalPeakDiscard \/ SplitConfirm)
              => tmp' = <<>>]_vars

\* a pair was discarded and the outer loop is about to push a new opt-in
C10_Witness ==
    /\ pc = "outer" /\ loop_cond /\ tmp = <<>>
    /\ iters >= 1 /\ NPairs = 0

\* C11: for the series [5.94, 5.89, 5.97, 6.0, 5.98, 6.07, 5.88, 5.98, 5.9]
\* with penalty 0.0025 the returned scan has registered the pair [1, 5], and
\* (1 - p) * 6.07 - (1 + p) * 5.89 > 0.
C11_ScenarioA ==
    (tseries = ScenarioA /\ penalty = ScenarioAPenalty /\ pc = "done") =>
        /\ \E i \in 1..NPairs : Pairs[i] = <<1, 5>>
        /\ (400 - 1) * 607 - (400 + 1) * 589 > 0
        /\ At(1) = 589 /\ At(5) = 607

\* the scan of the demonstration series has returned with [1, 5] registered
C11_Witness ==
    /\ tseries = ScenarioA /\ penalty = ScenarioAPenalty /\ pc = "done"
    /\ NPairs >= 1 /\ Pairs[1] = <<1, 5>>

StrictlyIncreasing == \A i \in 1..(N - 1) : tseries[i] < tseries[i + 1]
StrictlyDecreasing == \A i \in 1..(N - 1) : tseries[i] > tseries[i + 1]

\* C12: on a strictly increasing series of length N >= 2 the scan registers
\* exactly the pair [0, N-1] when that pair is net-positive under the
\* penalty, and no pair otherwise.
C12_Increasing ==
    (N >= 2 /\ StrictlyIncreasing) =>
        /\ NPairs <= 1
        /\ NPairs = 1 => Pairs[1] = <<0, N - 1>>
        /\ (pc = "done" /\ IsScalar(penalty)) =>
              (NPairs = 1 <=> NetPositiveAt(penalty.v[1], 0, N - 1))

\* the scan of a strictly increasing series of three or more samples has
\* returned with its single pair
C12_Witness ==
    /\ pc = "done" /\ N >= 3 /\ StrictlyIncreasing
    /\ NPairs = 1 /\ penalty.v[1] > 0

\* C13: on a strictly decreasing series the scan registers no pair: the
\* first minimum search moves the cursor to the last index and the inner
\* loop body never runs.
C13_Decreasing ==
    StrictlyDecreasing =>
        /\ NPairs = 0
        /\ iters = 0
        /\ pc \notin {"decide", "raised"}
        /\ (pc \in {"inner", "done"} /\ N >= 1) => position = N - 1

\* the scan of a strictly decreasing series of three or more samples has
\* returned
C13_Witness ==
    /\ pc = "done" /\ N >= 3 /\ StrictlyDecreasing
    /\ tmp = <<N - 1>>

\* C14: whenever the hold-through branch fires, the cursor moves to
\* next_exceeding, the buffer becomes [opt_in], and a further inner-loop
\* iteration follows (the inner loop condition still holds), also when
\* next_exceeding is the last index, so that the held opt-in is evaluated
\* again.
C14_HoldThroughContinues ==
    [][HoldThrough =>
          /\ position' = find_next_larger
          /\ tmp' = <<tmp[1]>>
          /\ pc' = "inner"
          /\ loop_cond']_vars

\* C15 as stated: when find_next_larger returns none the buffer is cleared,
\* the inner loop breaks, and the outer loop condition then ends the scan
\* (no further opt-in is pushed, no further pair is registered).
C15_NoneBranchEndsScan ==
    [][(GlobalPeakConfirm \/ GlobalPeakDiscard) =>
          /\ tmp' = <<>>
          /\ pc' = "outer"
          /\ ~loop_cond']_vars

\* C15 as amended: when find_next_larger returns none the buffer is cleared
\* and the inner loop breaks with the cursor left at the decision point; the
\* outer loop condition then ends the scan exactly when that decision point
\* is the last index, and otherwise the outer loop runs again.
C15_NoneBranchBreaks ==
    [][(GlobalPeakConfirm \/ GlobalPeakDiscard) =>
          /\ tmp' = <<>>
          /\ pc' = "outer"
          /\ position' = tmp[2]
          /\ ~loop_cond' <=> tmp[2] = N - 1]_vars

\* a pair was confirmed at a peak no later sample exceeds, and the outer
\* loop is about to run again
C15_Witness ==
    /\ pc = "outer" /\ loop_cond /\ tmp = <<>>
    /\ NPairs >= 1 /\ Pairs[NPairs][2] = position
    /\ find_next_larger = None

\* C16: whenever the refine-opt-in branch fires, the sample at the new
\* opt-in index written to tmp[0] is lower than the sample at the opt-in
\* index it replaces.
C16_RefineLowersOptIn ==
    [][RefineOptIn => At(tmp'[1]) < At(tmp[1])]_vars

\* C17: in an inner-loop iteration with buffer [opt_in, d] the pair is
\* appended to registered_pairs if and only if it is net-positive and either
\* no later sample strictly exceeds series[d] or
\* series[d] - m - p * (series[d] + m) > 0, m being the minimum sample over
\* [d, next_exceeding); otherwise nothing is appended, and when no later
\* sample exceeds series[d] and the pair is not net-positive the buffer is
\* discarded.
C17_AppendExactly ==
    [][(pc = "decide" /\ IsScalar(penalty)) =>
          LET a == tmp[1]
              d == tmp[2]
              k == penalty.v[1]
              later == {j \in (d + 1)..(N - 1) : At(j) > At(d)}
              nx == SetMin(later)
              m == SetMin({At(j) : j \in d..(nx - 1)})
              np == (Den - k) * At(d) - (Den + k) * At(a) > 0
              split == Den * (At(d) - m) - k * (At(d) + m) > 0
              appended == registered_pairs' = Append(registered_pairs, <<a, d>>)
          IN  /\ appended <=> (np /\ (later = {} \/ split))
              /\ ~appended => registered_pairs' = registered_pairs
              /\ (later = {} /\ ~np) => tmp' = <<>>]_vars

\* a pair was confirmed by the split test, with a larger sample still ahead
C17_Witness ==
    /\ pc = "outer" /\ tmp = <<>>
    /\ NPairs >= 1 /\ Pairs[NPairs][2] = position
    /\ find_next_larger # None

\* C18: every registered pair [a, b] enters at a local minimum and exits at
\* a local maximum: series[a] < series[a+1] and (a = 0 or
\* series[a-1] >= series[a]); series[b-1] <= series[b] and (b = N-1 or
\* series[b] > series[b+1]).
C18_LocalExtrema ==
    \A i \in 1..NPairs :
        LET a == Pairs[i][1]
            b == Pairs[i][2]
        IN  /\ At(a) < At(a + 1)
            /\ a = 0 \/ At(a - 1) >= At(a)
            /\ At(b - 1) <= At(b)
            /\ b = N - 1 \/ At(b) > At(b + 1)

\* a pair strictly inside the series was registered and the call returned
C18_Witness ==
    /\ pc = "done"
    /\ \E i \in 1..NPairs : Pairs[i][1] > 0 /\ Pairs[i][2] < N - 1

\* C19: for every registered pair [a, b] the exit sample is the maximum of
\* the series over the held interval: series[b] >= series[i] for a <= i <= b.
C19_ExitIsIntervalMax ==
    \A i \in 1..NPairs :
        \A j \in Pairs[i][1]..Pairs[i][2] : At(Pairs[i][2]) >= At(j)

\* a pair held through a dip was registered and the call returned
C19_Witness ==
    /\ pc = "done"
    /\ \E i \in 1..NPairs :
          \E j \in (Pairs[i][1] + 1)..(Pairs[i][2] - 1) : At(j) > At(j + 1)

\* C20: a second call of find_optimal_pairs on the same instance runs no
\* loop body and leaves position, tmp and registered_pairs (and the lists
\* they hold) exactly as the first call left them.
C20_SecondCallNoOp ==
    /\ [][calls' >= 2 =>
             UNCHANGED <<position, heap, tmp_id, registered_ids, reads>>]_vars
    /\ [](calls >= 2 => (pc \in {"outer", "done"} /\ iters = 0))

\* a second call has returned on an instance holding registered pairs
C20_Witness == calls = 2 /\ pc = "done" /\ NPairs >= 1 /\ N >= 2
====
